---- MODULE Spec2Model ----
(***************************************************************************)
(* TestKeeper: the in-process ZooKeeper emulator of                        *)
(* dbms/src/Common/ZooKeeper/TestKeeper.cpp.                               *)
(*                                                                         *)
(* Strings (paths, node data) are sequences of one-character strings, so   *)
(* that parentPath, baseName and the sequential suffix are computed on     *)
(* characters as the code computes them.  The wall-clock fields ctime and  *)
(* mtime of Stat are not modelled.  User callbacks are calls that return   *)
(* normally; each call is recorded in the variable events.                 *)
(*                                                                         *)
(* Spec is the session: client threads in pushRequest and finalize, and    *)
(* processingThread, interleaved at the mutex, the queue and the expired   *)
(* flag.  SpecStore is the store under a client that submits one request   *)
(* at a time, with a larger set of requests.                               *)
(***************************************************************************)
EXTENDS Integers, Sequences, FiniteSets, TLC

\* ------------------------------------------------------------------ bounds
\* Number of requests the clients submit in the session specification.
MaxRequests == 3
\* Number of requests processed in the store specification.
MaxSteps == 3
\* Capacity of requests_queue.
MaxQueue == 2
\* Longest sub-request list of a Multi in the store specification.
MaxMulti == 2

\* Width of the sequential suffix (std::setw(10)).
SeqNumWidth == 10

\* The "any version" sentinel of Remove, Set and Check.
AnyVersion == -1

\* ------------------------------------------------------- string utilities
Digits == <<"0", "1", "2", "3", "4", "5", "6", "7", "8", "9">>

\* 1-based index of the last '/' of path, 0 when there is none (npos).
RECURSIVE rfindSlash(_, _)
rfindSlash(path, i) ==
    IF i = 0 THEN 0
    ELSE IF path[i] = "/" THEN i
    ELSE rfindSlash(path, i - 1)

parentPath(path) ==
    LET rslash_pos == rfindSlash(path, Len(path))
    IN  IF rslash_pos = 0 THEN path                       \* npos > 0: substr(0, npos)
        ELSE IF rslash_pos > 1 THEN SubSeq(path, 1, rslash_pos - 1)
        ELSE <<"/">>

baseName(path) ==
    LET rslash_pos == rfindSlash(path, Len(path))
    IN  SubSeq(path, rslash_pos + 1, Len(path))

startsWith(s, prefix) ==
    /\ Len(s) >= Len(prefix)
    /\ SubSeq(s, 1, Len(prefix)) = prefix

\* Decimal digits of a natural number, most significant first.
RECURSIVE DecimalStr(_)
DecimalStr(n) ==
    IF n < 10 THEN <<Digits[n + 1]>>
    ELSE DecimalStr(n \div 10) \o <<Digits[(n % 10) + 1]>>

\* The suffix without std::setw and std::setfill.
SeqNumStrNoPad(seq_num) == DecimalStr(seq_num)

\* seq_num_str << std::setw(10) << std::setfill('0') << seq_num
SeqNumStr(seq_num) ==
    LET s == DecimalStr(seq_num)
    IN  IF Len(s) >= SeqNumWidth THEN s
        ELSE [i \in 1..(SeqNumWidth - Len(s)) |-> "0"] \o s

\* ------------------------------------------------------ nodes, responses
ZeroStat ==
    [czxid |-> 0, mzxid |-> 0, version |-> 0, cversion |-> 0,
     numChildren |-> 0, dataLength |-> 0]

\* Node(): the default-constructed node the constructor seeds "/" with.
DefaultNode ==
    [data |-> <<>>, is_ephemeral |-> FALSE, is_sequental |-> FALSE,
     seq_num |-> 0, stat |-> ZeroStat]

\* createResponse(): the empty response of the matching variant.
createResponse(type) ==
    [type |-> type, error |-> "ZOK", path_created |-> <<>>, stat |-> ZeroStat,
     data |-> <<>>, names |-> {}, responses |-> <<>>]

Failed(type, error) == [createResponse(type) EXCEPT !.error = error]

\* What a call of process leaves behind: the container, the response, and
\* whether the call threw instead of returning (then response is unused).
Returned(container, response) ==
    [container |-> container, response |-> response, thrown |-> FALSE]

Thrown(container, type) ==
    [container |-> container, response |-> createResponse(type), thrown |-> TRUE]

erase(container, path) ==
    [p \in (DOMAIN container) \ {path} |-> container[p]]

\* ---------------------------------------------------------------- process
\* CreateProcess without the is_ephemeral test of the parent.
CreateProcessNoEphemeralTest(container, request, zxid) ==
    LET path == request.path
        parent == parentPath(path)
    IN
    IF path \in DOMAIN container
    THEN Returned(container, Failed("Create", "ZNODEEXISTS"))
    ELSE IF parent \notin DOMAIN container
    THEN Returned(container, Failed("Create", "ZNONODE"))
    ELSE
        LET created_node ==
                [data |-> request.data,
                 is_ephemeral |-> request.is_ephemeral,
                 is_sequental |-> request.is_sequential,
                 seq_num |-> 0,
                 stat |-> [czxid |-> zxid, mzxid |-> zxid, version |-> 0,
                           cversion |-> 0, numChildren |-> 0,
                           dataLength |-> Len(request.data)]]
            seq_num == container[parent].seq_num
            path_created ==
                IF request.is_sequential THEN path \o SeqNumStr(seq_num) ELSE path
            c1 == IF request.is_sequential
                  THEN [container EXCEPT ![parent].seq_num = @ + 1]
                  ELSE container
            c2 == IF path_created \in DOMAIN c1
                  THEN c1
                  ELSE (path_created :> created_node) @@ c1
            c3 == [c2 EXCEPT ![parent].stat.cversion = @ + 1,
                             ![parent].stat.numChildren = @ + 1]
        IN  Returned(c3, [createResponse("Create") EXCEPT
                             !.path_created = path_created])

CreateProcess(container, request, zxid) ==
    LET path == request.path
        parent == parentPath(path)
    IN
    IF path \in DOMAIN container
    THEN Returned(container, Failed("Create", "ZNODEEXISTS"))
    ELSE IF parent \notin DOMAIN container
    THEN Returned(container, Failed("Create", "ZNONODE"))
    ELSE IF container[parent].is_ephemeral
    THEN Returned(container, Failed("Create", "ZNOCHILDRENFOREPHEMERALS"))
    ELSE
        LET created_node ==
                [data |-> request.data,
                 is_ephemeral |-> request.is_ephemeral,
                 is_sequental |-> request.is_sequential,
                 seq_num |-> 0,
                 stat |-> [czxid |-> zxid, mzxid |-> zxid, version |-> 0,
                           cversion |-> 0, numChildren |-> 0,
                           dataLength |-> Len(request.data)]]
            seq_num == container[parent].seq_num
            path_created ==
                IF request.is_sequential THEN path \o SeqNumStr(seq_num) ELSE path
            c1 == IF request.is_sequential
                  THEN [container EXCEPT ![parent].seq_num = @ + 1]
                  ELSE container
            \* container.emplace: inserts nothing when the key is present
            c2 == IF path_created \in DOMAIN c1
                  THEN c1
                  ELSE (path_created :> created_node) @@ c1
            c3 == [c2 EXCEPT ![parent].stat.cversion = @ + 1,
                             ![parent].stat.numChildren = @ + 1]
        IN  Returned(c3, [createResponse("Create") EXCEPT
                             !.path_created = path_created])

\* RemoveProcess without the ZNOTEMPTY test.
RemoveProcessNoChildTest(container, request, zxid) ==
    LET path == request.path
        parent == parentPath(path)
    IN
    IF path \notin DOMAIN container
    THEN Returned(container, Failed("Remove", "ZNONODE"))
    ELSE IF request.version # AnyVersion
            /\ request.version # container[path].stat.version
    THEN Returned(container, Failed("Remove", "ZBADVERSION"))
    ELSE
        LET c1 == erase(container, path)
        IN  IF parent \notin DOMAIN c1
            THEN Thrown(c1, "Remove")
            ELSE Returned([c1 EXCEPT ![parent].stat.numChildren = @ - 1,
                                     ![parent].stat.cversion = @ + 1],
                          createResponse("Remove"))

RemoveProcess(container, request, zxid) ==
    LET path == request.path
        parent == parentPath(path)
    IN
    IF path \notin DOMAIN container
    THEN Returned(container, Failed("Remove", "ZNONODE"))
    ELSE IF request.version # AnyVersion
            /\ request.version # container[path].stat.version
    THEN Returned(container, Failed("Remove", "ZBADVERSION"))
    ELSE IF container[path].stat.numChildren # 0
    THEN Returned(container, Failed("Remove", "ZNOTEMPTY"))
    ELSE
        LET c1 == erase(container, path)
        IN  IF parent \notin DOMAIN c1
            THEN Thrown(c1, "Remove")            \* container.at throws
            ELSE Returned([c1 EXCEPT ![parent].stat.numChildren = @ - 1,
                                     ![parent].stat.cversion = @ + 1],
                          createResponse("Remove"))

ExistsProcess(container, request, zxid) ==
    IF request.path \in DOMAIN container
    THEN Returned(container, [createResponse("Exists") EXCEPT
                                 !.stat = container[request.path].stat])
    ELSE Returned(container, Failed("Exists", "ZNONODE"))

GetProcess(container, request, zxid) ==
    IF request.path \notin DOMAIN container
    THEN Returned(container, Failed("Get", "ZNONODE"))
    ELSE Returned(container, [createResponse("Get") EXCEPT
                                 !.stat = container[request.path].stat,
                                 !.data = container[request.path].data])

\* SetProcess without ++it->second.stat.version.
SetProcessKeepsVersion(container, request, zxid) ==
    LET path == request.path
        parent == parentPath(path)
    IN
    IF path \notin DOMAIN container
    THEN Returned(container, Failed("Set", "ZNONODE"))
    ELSE IF request.version = AnyVersion
            \/ request.version = container[path].stat.version
    THEN
        LET c1 == [container EXCEPT ![path].data = request.data,
                                    ![path].stat.mzxid = zxid]
        IN  IF parent \notin DOMAIN c1
            THEN Thrown(c1, "Set")
            ELSE LET c2 == [c1 EXCEPT ![parent].stat.cversion = @ + 1]
                 IN  Returned(c2, [createResponse("Set") EXCEPT
                                      !.stat = c2[path].stat])
    ELSE Returned(container, Failed("Set", "ZBADVERSION"))

SetProcess(container, request, zxid) ==
    LET path == request.path
        parent == parentPath(path)
    IN
    IF path \notin DOMAIN container
    THEN Returned(container, Failed("Set", "ZNONODE"))
    ELSE IF request.version = AnyVersion
            \/ request.version = container[path].stat.version
    THEN
        LET c1 == [container EXCEPT ![path].data = request.data,
                                    ![path].stat.version = @ + 1,
                                    ![path].stat.mzxid = zxid]
        IN  IF parent \notin DOMAIN c1
            THEN Thrown(c1, "Set")               \* container.at throws
            ELSE LET c2 == [c1 EXCEPT ![parent].stat.cversion = @ + 1]
                 IN  Returned(c2, [createResponse("Set") EXCEPT
                                      !.stat = c2[path].stat])
    ELSE Returned(container, Failed("Set", "ZBADVERSION"))

ListProcess(container, request, zxid) ==
    LET path == request.path
        path_prefix == IF path[Len(path)] # "/" THEN path \o <<"/">> ELSE path
    IN
    IF path \notin DOMAIN container
    THEN Returned(container, Failed("List", "ZNONODE"))
    ELSE IF path = <<>>
    THEN Thrown(container, "List")
    ELSE
        \* upper_bound(path_prefix) starts after the key path_prefix itself;
        \* names is kept as a set, the response order is not modelled
        LET names == {baseName(p) : p \in
                        {q \in DOMAIN container :
                            /\ q # path_prefix
                            /\ startsWith(q, path_prefix)
                            /\ parentPath(q) = path}}
        IN  Returned(container, [createResponse("List") EXCEPT
                                    !.names = names,
                                    !.stat = container[path].stat])

CheckProcess(container, request, zxid) ==
    IF request.path \notin DOMAIN container
    THEN Returned(container, Failed("Check", "ZNONODE"))
    ELSE IF request.version # AnyVersion
            /\ request.version # container[request.path].stat.version
    THEN Returned(container, Failed("Check", "ZBADVERSION"))
    ELSE Returned(container, createResponse("Check"))

\* The virtual call concrete_request.process for the non-Multi variants.
ProcessSingle(container, request, zxid) ==
    CASE request.type = "Create" -> CreateProcess(container, request, zxid)
      [] request.type = "Remove" -> RemoveProcess(container, request, zxid)
      [] request.type = "Exists" -> ExistsProcess(container, request, zxid)
      [] request.type = "Get"    -> GetProcess(container, request, zxid)
      [] request.type = "Set"    -> SetProcess(container, request, zxid)
      [] request.type = "List"   -> ListProcess(container, request, zxid)
      [] request.type = "Check"  -> CheckProcess(container, request, zxid)

\* MultiLoop that returns on a failed sub-request without its response.
RECURSIVE MultiLoopDropsFailing(_, _, _, _, _, _)
MultiLoopDropsFailing(container, container_copy, requests, i, zxid, responses) ==
    IF i > Len(requests)
    THEN Returned(container, [createResponse("Multi") EXCEPT
                                 !.responses = responses])
    ELSE
        LET cur == ProcessSingle(container, requests[i], zxid)
        IN  IF cur.thrown
            THEN Thrown(container_copy, "Multi")
            ELSE IF cur.response.error # "ZOK"
            THEN Returned(container_copy,
                          [createResponse("Multi") EXCEPT
                              !.error = cur.response.error,
                              !.responses = responses])
            ELSE MultiLoopDropsFailing(cur.container, container_copy, requests,
                                       i + 1, zxid, Append(responses, cur.response))

\* MultiLoop without "container = container_copy" on a failed sub-request.
RECURSIVE MultiLoopNoRestore(_, _, _, _, _, _)
MultiLoopNoRestore(container, container_copy, requests, i, zxid, responses) ==
    IF i > Len(requests)
    THEN Returned(container, [createResponse("Multi") EXCEPT
                                 !.responses = responses])
    ELSE
        LET cur == ProcessSingle(container, requests[i], zxid)
        IN  IF cur.thrown
            THEN Thrown(container_copy, "Multi")
            ELSE IF cur.response.error # "ZOK"
            THEN Returned(cur.container,
                          [createResponse("Multi") EXCEPT
                              !.error = cur.response.error,
                              !.responses = Append(responses, cur.response)])
            ELSE MultiLoopNoRestore(cur.container, container_copy, requests,
                                    i + 1, zxid, Append(responses, cur.response))

\* The loop of TestKeeperMultiRequest::process from sub-request i on;
\* container_copy is the snapshot taken on entry.
RECURSIVE MultiLoop(_, _, _, _, _, _)
MultiLoop(container, container_copy, requests, i, zxid, responses) ==
    IF i > Len(requests)
    THEN Returned(container, [createResponse("Multi") EXCEPT
                                 !.responses = responses])
    ELSE
        LET cur == ProcessSingle(container, requests[i], zxid)
        IN  IF cur.thrown
            THEN Thrown(container_copy, "Multi")     \* catch (...): restore, rethrow
            ELSE IF cur.response.error # "ZOK"
            THEN Returned(container_copy,
                          [createResponse("Multi") EXCEPT
                              !.error = cur.response.error,
                              !.responses = Append(responses, cur.response)])
            ELSE MultiLoop(cur.container, container_copy, requests, i + 1, zxid,
                           Append(responses, cur.response))

MultiProcess(container, request, zxid) ==
    MultiLoop(container, container, request.requests, 1, zxid, <<>>)

\* info.request->process(container, zxid)
Process(container, request, zxid) ==
    IF request.type = "Multi"
    THEN MultiProcess(container, request, zxid)
    ELSE ProcessSingle(container, request, zxid)

\* ----------------------------------------------------------- map ordering
\* The characters of the modelled strings in ASCII order; std::map iterates
\* its keys in lexicographic order of these.
Alphabet == <<"/", "0", "1", "2", "3", "4", "5", "6", "7", "8", "9", "a", "b", "r", "x">>

CharCode(c) == CHOOSE i \in 1..Len(Alphabet) : Alphabet[i] = c

RECURSIVE StringLess(_, _)
StringLess(s, t) ==
    IF t = <<>> THEN FALSE
    ELSE IF s = <<>> THEN TRUE
    ELSE IF CharCode(s[1]) # CharCode(t[1]) THEN CharCode(s[1]) < CharCode(t[1])
    ELSE StringLess(Tail(s), Tail(t))

\* The keys of a map in iteration order.
RECURSIVE SortedKeys(_)
SortedKeys(keys) ==
    IF keys = {} THEN <<>>
    ELSE LET first == CHOOSE p \in keys : \A q \in keys \ {p} : StringLess(p, q)
         IN  <<first>> \o SortedKeys(keys \ {first})

\* ---------------------------------------------------------------- watches
\* A Watches map: path -> sequence of callbacks; a callback is named by the
\* id of the request that carried it.
WatchResponse(type, state, path, error) ==
    [type |-> type, state |-> state, path |-> path, error |-> error]

\* One invocation of a watch callback.
WatchCall(id, response) == [id |-> id, response |-> response]

\* The calls made for one registry entry, in callback order.
CallAll(callbacks, response) ==
    [i \in 1..Len(callbacks) |-> WatchCall(callbacks[i], response)]

\* processWatchesImpl without its second half, the list watches.
processWatchesImplDataOnly(path, watches, list_watches) ==
    LET watch_response == WatchResponse("", "", path, "ZOK")
        found == path \in DOMAIN watches
    IN  [watches |-> IF found THEN erase(watches, path) ELSE watches,
         list_watches |-> list_watches,
         calls |-> IF found THEN CallAll(watches[path], watch_response) ELSE <<>>]

\* processWatchesImpl without watches.erase(it) and list_watches.erase(it).
processWatchesImplNoErase(path, watches, list_watches) ==
    LET watch_response == WatchResponse("", "", path, "ZOK")
        watch_list_response == WatchResponse("", "", parentPath(path), "ZOK")
        found == path \in DOMAIN watches
        list_found == parentPath(path) \in DOMAIN list_watches
    IN  [watches |-> watches,
         list_watches |-> list_watches,
         calls |-> (IF found THEN CallAll(watches[path], watch_response) ELSE <<>>)
                   \o (IF list_found
                       THEN CallAll(list_watches[parentPath(path)], watch_list_response)
                       ELSE <<>>)]

processWatchesImpl(path, watches, list_watches) ==
    LET watch_response == WatchResponse("", "", path, "ZOK")
        watch_list_response == WatchResponse("", "", parentPath(path), "ZOK")
        found == path \in DOMAIN watches
        list_found == parentPath(path) \in DOMAIN list_watches
    IN  [watches |-> IF found THEN erase(watches, path) ELSE watches,
         list_watches |-> IF list_found
                          THEN erase(list_watches, parentPath(path))
                          ELSE list_watches,
         calls |-> (IF found THEN CallAll(watches[path], watch_response) ELSE <<>>)
                   \o (IF list_found
                       THEN CallAll(list_watches[parentPath(path)], watch_list_response)
                       ELSE <<>>)]

\* processWatches of the non-Multi variants: Create, Remove and Set call
\* processWatchesImpl(getPath(), ...), the others inherit the empty default.
ProcessWatchesSingle(request, watches, list_watches) ==
    IF request.type \in {"Create", "Remove", "Set"}
    THEN processWatchesImpl(request.path, watches, list_watches)
    ELSE [watches |-> watches, list_watches |-> list_watches, calls |-> <<>>]

\* processWatches of a Multi that walks its sub-requests from the last one.
RECURSIVE MultiProcessWatchesReversed(_, _, _, _, _)
MultiProcessWatchesReversed(requests, i, watches, list_watches, calls) ==
    IF i > Len(requests)
    THEN [watches |-> watches, list_watches |-> list_watches, calls |-> calls]
    ELSE LET cur == ProcessWatchesSingle(requests[Len(requests) + 1 - i],
                                         watches, list_watches)
         IN  MultiProcessWatchesReversed(requests, i + 1, cur.watches,
                                         cur.list_watches, calls \o cur.calls)

\* TestKeeperMultiRequest::processWatches from sub-request i on.
RECURSIVE MultiProcessWatches(_, _, _, _, _)
MultiProcessWatches(requests, i, watches, list_watches, calls) ==
    IF i > Len(requests)
    THEN [watches |-> watches, list_watches |-> list_watches, calls |-> calls]
    ELSE LET cur == ProcessWatchesSingle(requests[i], watches, list_watches)
         IN  MultiProcessWatches(requests, i + 1, cur.watches, cur.list_watches,
                                 calls \o cur.calls)

ProcessWatches(request, watches, list_watches) ==
    IF request.type = "Multi"
    THEN MultiProcessWatches(request.requests, 1, watches, list_watches, <<>>)
    ELSE ProcessWatchesSingle(request, watches, list_watches)

\* watches_type[info.request->getPath()].emplace_back(std::move(info.watch))
EmplaceWatch(watches_type, path, id) ==
    IF path \in DOMAIN watches_type
    THEN [watches_type EXCEPT ![path] = Append(@, id)]
    ELSE (path :> <<id>>) @@ watches_type

RegisterWatch(info, watches, list_watches) ==
    IF ~info.watch
    THEN [watches |-> watches, list_watches |-> list_watches]
    ELSE IF info.request.type = "List"
    THEN [watches |-> watches,
          list_watches |-> EmplaceWatch(list_watches, info.request.path, info.id)]
    ELSE [watches |-> EmplaceWatch(watches, info.request.path, info.id),
          list_watches |-> list_watches]

\* -------------------------------------------------------------- root path
\* The constructor drops one trailing slash of root_path.
NormalizeRootPath(root_path_) ==
    IF root_path_ # <<>> /\ root_path_[Len(root_path_)] = "/"
    THEN SubSeq(root_path_, 1, Len(root_path_) - 1)
    ELSE root_path_

addRootPath(request, root) ==
    LET subs == request.requests
    IN  [request EXCEPT
            !.path = IF request.type = "Multi" THEN request.path
                     ELSE root \o request.path,
            !.requests = [i \in 1..Len(subs) |->
                             [subs[i] EXCEPT !.path = root \o subs[i].path]]]

StripRoot(path, root) ==
    IF root # <<>> /\ startsWith(path, root)
    THEN SubSeq(path, Len(root) + 1, Len(path))
    ELSE path

removeRootPath(response, root) ==
    LET subs == response.responses
    IN  [response EXCEPT
            !.path_created = StripRoot(response.path_created, root),
            !.responses = [i \in 1..Len(subs) |->
                              [subs[i] EXCEPT
                                  !.path_created = StripRoot(subs[i].path_created, root)]]]

\* ----------------------------------------------------------------- inputs
Request(type, path, data, version, is_ephemeral, is_sequential, requests) ==
    [type |-> type, path |-> path, data |-> data, version |-> version,
     is_ephemeral |-> is_ephemeral, is_sequential |-> is_sequential,
     requests |-> requests]

Create(path, data, is_ephemeral, is_sequential) ==
    Request("Create", path, data, AnyVersion, is_ephemeral, is_sequential, <<>>)
Remove(path, version) == Request("Remove", path, <<>>, version, FALSE, FALSE, <<>>)
Exists(path) == Request("Exists", path, <<>>, AnyVersion, FALSE, FALSE, <<>>)
Get(path) == Request("Get", path, <<>>, AnyVersion, FALSE, FALSE, <<>>)
Set(path, data, version) == Request("Set", path, data, version, FALSE, FALSE, <<>>)
List(path) == Request("List", path, <<>>, AnyVersion, FALSE, FALSE, <<>>)
Check(path, version) == Request("Check", path, <<>>, version, FALSE, FALSE, <<>>)
\* MultiRequest::getPath() is the empty string
Multi(requests) == Request("Multi", <<>>, <<>>, AnyVersion, FALSE, FALSE, requests)

Root == <<"/">>
PathA == <<"/", "a">>
PathAB == <<"/", "a", "/", "b">>
\* the client path "//a": "/a" under the root "/"
PathSlashA == <<"/", "/", "a">>
\* the path a sequential Create of "/a" produces first
PathA0 == PathA \o SeqNumStr(0)

\* Sequences over S of length at most n.
SeqUpTo(S, n) == UNION {[1..k -> S] : k \in 0..n}

\* Sub-requests of the Multi requests of the store specification.
StoreMultiSubs ==
    {Create(PathA, <<>>, FALSE, FALSE), Create(PathA, <<"x">>, FALSE, TRUE),
     Remove(Root, AnyVersion), Set(Root, <<"x">>, AnyVersion), Check(PathA, 1)}

\* Requests of the store specification (no watches).
StoreRequests ==
    {Create(PathA, d, FALSE, FALSE) : d \in {<<>>, <<"x">>}}
    \cup {Create(PathA, <<"x">>, FALSE, TRUE), Create(PathA, <<>>, TRUE, FALSE),
          Create(PathAB, <<>>, FALSE, FALSE), Create(PathA0, <<>>, FALSE, FALSE)}
    \cup {Remove(p, v) : p \in {Root, PathA}, v \in {AnyVersion, 1}}
    \cup {Remove(PathAB, AnyVersion)}
    \cup {Set(p, d, AnyVersion) : p \in {Root, PathA}, d \in {<<>>, <<"x">>}}
    \cup {Set(PathA, <<"x">>, 0)}
    \cup {Check(PathA, v) : v \in {AnyVersion, 1}}
    \cup {Exists(PathA), Get(PathA), List(Root)}
    \cup {Multi(rs) : rs \in SeqUpTo(StoreMultiSubs, MaxMulti)}

\* Envelopes the clients submit in the session specification:
\* <<request, whether a watch callback is attached>>.
SessionRequests ==
    {<<Get(PathA), TRUE>>, <<List(Root), TRUE>>, <<Exists(PathSlashA), TRUE>>,
     <<Create(PathA, <<>>, FALSE, FALSE), FALSE>>,
     <<Set(PathA, <<"x">>, AnyVersion), FALSE>>,
     <<Remove(Root, AnyVersion), FALSE>>,
     <<Multi(<<Create(PathA, <<>>, FALSE, FALSE), Set(PathA, <<"x">>, AnyVersion)>>), FALSE>>,
     <<Multi(<<Check(Root, AnyVersion), Set(Root, <<"x">>, AnyVersion),
               Create(PathA, <<>>, FALSE, FALSE)>>), FALSE>>}

\* Sub-request lists the clients pass to multi() that hold a request that
\* is not a Create, Remove, Set or Check.
BadMultiCalls ==
    {<<Create(PathA, <<>>, FALSE, FALSE), Get(PathA)>>,
     <<Exists(Root)>>,
     <<Set(Root, <<"x">>, AnyVersion), List(Root)>>,
     <<Multi(<<>>)>>}

\* What the clients call in the session specification.
SessionCalls ==
    SessionRequests \cup {<<Multi(requests), FALSE>> : requests \in BadMultiCalls}

\* A TestKeeperMultiRequest built from any list of requests.
MultiConstructsAnything(requests) == TRUE

\* TestKeeperMultiRequest(generic_requests) does not throw: every request
\* casts to a CreateRequest, RemoveRequest, SetRequest or CheckRequest.
MultiConstructs(requests) ==
    \A k \in 1..Len(requests) :
        requests[k].type \in {"Create", "Remove", "Set", "Check"}

\* The TestKeeper request object of the call can be built.
Constructs(request) ==
    request.type = "Multi" => MultiConstructs(request.requests)

\* ------------------------------------------------------------------ state
VARIABLES
    container,        \* Container: path -> Node
    zxid,             \* int64_t zxid
    watches,          \* Watches of Exists and Get
    list_watches,     \* Watches of List
    requests_queue,   \* the bounded queue of RequestInfo
    expired,          \* bool expired
    root_path,        \* String root_path
    mutator,          \* where processingThread is
    info,             \* the RequestInfo processingThread popped
    push_lock,        \* the RequestInfo of the pushRequest holding push_request_mutex
    finalizer,        \* the thread that set expired in finalize
    finalize_pc,      \* where that finalize call is
    finalize_owed,    \* a pushRequest threw and its catch has not yet called finalize
    next_id,          \* id of the next pushRequest call
    push_result,      \* pushRequest call id -> how it ended, and what it carried
    events            \* the process calls and callback invocations, in order

vars == <<container, zxid, watches, list_watches, requests_queue, expired,
          root_path, mutator, info, push_lock, finalizer, finalize_pc,
          finalize_owed, next_id, push_result, events>>

NoInfo == [id |-> 0, request |-> Multi(<<>>), watch |-> FALSE]

EmptyMap == [p \in {} |-> <<>>]

\* How a pushRequest call ended: "pushed", or the error code it threw.
PushResult(outcome, i) ==
    [outcome |-> outcome, watch |-> i.watch]

Init ==
    /\ container = (Root :> DefaultNode)
    /\ zxid = 0
    /\ watches = EmptyMap
    /\ list_watches = EmptyMap
    /\ requests_queue = <<>>
    /\ expired = FALSE
    /\ root_path = NormalizeRootPath(<<>>)
    /\ mutator = "loop"
    /\ info = NoInfo
    /\ push_lock = NoInfo
    /\ finalizer = "none"
    /\ finalize_pc = "idle"
    /\ finalize_owed = FALSE
    /\ next_id = 1
    /\ push_result = [i \in {} |-> PushResult("pushed", NoInfo)]
    /\ events = <<>>

\* ----------------------------------------------------------------- events
\* kind "process":    process was called for request id with zxid
\* kind "threw":      that call of process threw
\* kind "completion": info.callback(response) of request id
\* kind "watch":      the watch callback of request id was called with response
\* by: the code that made the call, "mutator" (processingThread) or "finalize"
Event(kind, id, by, z, request, response) ==
    [kind |-> kind, id |-> id, by |-> by, zxid |-> z, request |-> request,
     response |-> response]

WatchEvents(calls, by, z) ==
    [k \in 1..Len(calls) |->
        Event("watch", calls[k].id, by, z, NoInfo.request, calls[k].response)]

SessionExpiredWatchResponse ==
    WatchResponse("SESSION", "EXPIRED_SESSION", <<>>, "ZSESSIONEXPIRED")

\* ------------------------------------------------------- processingThread
\* The loop without ++zxid.
SameZxid(z) == z

NextZxid(z) == z + 1

\* The iteration with the watch registered after process, and only when the
\* response is ZOK.
ProcessRequestRegistersOnZOK(i, log, pc) ==
    LET z == NextZxid(zxid)
        request == addRootPath(i.request, root_path)
        result == Process(container, request, z)
        ok == ~result.thrown /\ result.response.error = "ZOK"
        registered == IF ok
                      THEN RegisterWatch(i, watches, list_watches)
                      ELSE [watches |-> watches, list_watches |-> list_watches]
        fired == IF ok
                 THEN ProcessWatches(request, registered.watches,
                                     registered.list_watches)
                 ELSE [watches |-> registered.watches,
                       list_watches |-> registered.list_watches,
                       calls |-> <<>>]
        response == removeRootPath(result.response, root_path)
    IN  /\ container' = result.container
        /\ zxid' = z
        /\ watches' = fired.watches
        /\ list_watches' = fired.list_watches
        /\ events' = log
                     \o <<Event("process", i.id, "mutator", z, request,
                                result.response)>>
                     \o WatchEvents(fired.calls, "mutator", z)
                     \o (IF result.thrown
                         THEN <<Event("threw", i.id, "mutator", z, request,
                                      result.response)>>
                         ELSE <<Event("completion", i.id, "mutator", z,
                                      i.request, response)>>)
        /\ mutator' = IF result.thrown THEN "catch" ELSE pc
        /\ info' = NoInfo

\* The iteration with processWatches called whatever the response error.
ProcessRequestFiresWhateverTheError(i, log, pc) ==
    LET registered == RegisterWatch(i, watches, list_watches)
        z == NextZxid(zxid)
        request == addRootPath(i.request, root_path)
        result == Process(container, request, z)
        fired == IF ~result.thrown
                 THEN ProcessWatches(request, registered.watches,
                                     registered.list_watches)
                 ELSE [watches |-> registered.watches,
                       list_watches |-> registered.list_watches,
                       calls |-> <<>>]
        response == removeRootPath(result.response, root_path)
    IN  /\ container' = result.container
        /\ zxid' = z
        /\ watches' = fired.watches
        /\ list_watches' = fired.list_watches
        /\ events' = log
                     \o <<Event("process", i.id, "mutator", z, request,
                                result.response)>>
                     \o WatchEvents(fired.calls, "mutator", z)
                     \o (IF result.thrown
                         THEN <<Event("threw", i.id, "mutator", z, request,
                                      result.response)>>
                         ELSE <<Event("completion", i.id, "mutator", z,
                                      i.request, response)>>)
        /\ mutator' = IF result.thrown THEN "catch" ELSE pc
        /\ info' = NoInfo

\* One iteration of the loop after a successful tryPop and the expired
\* test: register the watch, ++zxid, addRootPath, process, processWatches,
\* removeRootPath, callback.  log is the event log the calls are appended to;
\* pc is where processingThread is once the calls are logged.
ProcessRequest(i, log, pc) ==
    LET registered == RegisterWatch(i, watches, list_watches)
        z == NextZxid(zxid)
        request == addRootPath(i.request, root_path)
        result == Process(container, request, z)
        ok == ~result.thrown /\ result.response.error = "ZOK"
        fired == IF ok
                 THEN ProcessWatches(request, registered.watches,
                                     registered.list_watches)
                 ELSE [watches |-> registered.watches,
                       list_watches |-> registered.list_watches,
                       calls |-> <<>>]
        response == removeRootPath(result.response, root_path)
    IN  /\ container' = result.container
        /\ zxid' = z
        /\ watches' = fired.watches
        /\ list_watches' = fired.list_watches
        /\ events' = log
                     \o <<Event("process", i.id, "mutator", z, request,
                                result.response)>>
                     \o WatchEvents(fired.calls, "mutator", z)
                     \o (IF result.thrown
                         THEN <<Event("threw", i.id, "mutator", z, request,
                                      result.response)>>
                         ELSE <<Event("completion", i.id, "mutator", z,
                                      i.request, response)>>)
        /\ mutator' = IF result.thrown THEN "catch" ELSE pc
        /\ info' = NoInfo

\* while (!expired)
MutatorLoop ==
    /\ mutator = "loop"
    /\ mutator' = IF expired THEN "exit" ELSE "pop"
    /\ UNCHANGED <<container, zxid, watches, list_watches, requests_queue,
                   expired, root_path, info, push_lock, finalizer, finalize_pc,
                   finalize_owed, next_id, push_result, events>>

\* tryPop that takes the envelope pushed last.
MutatorPopLast ==
    /\ mutator = "pop"
    /\ requests_queue # <<>>
    /\ info' = requests_queue[Len(requests_queue)]
    /\ requests_queue' = SubSeq(requests_queue, 1, Len(requests_queue) - 1)
    /\ mutator' = "popped"
    /\ UNCHANGED <<container, zxid, watches, list_watches, expired, root_path,
                   push_lock, finalizer, finalize_pc, finalize_owed, next_id,
                   push_result, events>>

\* requests_queue.tryPop(info, max_wait) returns true
MutatorPop ==
    /\ mutator = "pop"
    /\ requests_queue # <<>>
    /\ info' = Head(requests_queue)
    /\ requests_queue' = Tail(requests_queue)
    /\ mutator' = "popped"
    /\ UNCHANGED <<container, zxid, watches, list_watches, expired, root_path,
                   push_lock, finalizer, finalize_pc, finalize_owed, next_id,
                   push_result, events>>

\* requests_queue.tryPop(info, max_wait) times out on the empty queue
MutatorPopTimeout ==
    /\ mutator = "pop"
    /\ requests_queue = <<>>
    /\ mutator' = "loop"
    /\ UNCHANGED <<container, zxid, watches, list_watches, requests_queue,
                   expired, root_path, info, push_lock, finalizer, finalize_pc,
                   finalize_owed, next_id, push_result, events>>

\* if (expired) break;  the popped RequestInfo goes out of scope
MutatorBreak ==
    /\ mutator = "popped"
    /\ expired
    /\ mutator' = "exit"
    /\ info' = NoInfo
    /\ UNCHANGED <<container, zxid, watches, list_watches, requests_queue,
                   expired, root_path, push_lock, finalizer, finalize_pc,
                   finalize_owed, next_id, push_result, events>>

MutatorProcess ==
    /\ mutator = "popped"
    /\ ~expired
    /\ ProcessRequest(info, events, "callback")
    /\ UNCHANGED <<requests_queue, expired, root_path, push_lock, finalizer,
                   finalize_pc, finalize_owed, next_id, push_result>>

\* The watch callbacks and info.callback(response) of the iteration return
\* and the loop goes on.
MutatorCallbackReturn ==
    /\ mutator = "callback"
    /\ mutator' = "loop"
    /\ UNCHANGED <<container, zxid, watches, list_watches, requests_queue,
                   expired, root_path, info, push_lock, finalizer, finalize_pc,
                   finalize_owed, next_id, push_result, events>>

\* ---------------------------------------------------------------- finalize
\* finalize without the lock_guard.
FinalizeNoLock == TRUE

\* std::lock_guard lock(push_request_mutex) can be taken
FinalizeLock == push_lock = NoInfo

\* catch (...) { finalize(); } on the processing thread: the thread that
\* sets expired goes on to processing_thread.join(), a join of itself.
MutatorCatch ==
    /\ mutator = "catch"
    /\ FinalizeLock
    /\ IF expired
       THEN /\ mutator' = "exit"
            /\ UNCHANGED <<expired, finalizer, finalize_pc>>
       ELSE /\ expired' = TRUE
            /\ finalizer' = "mutator"
            /\ finalize_pc' = "join"
            /\ mutator' = "selfjoin"
    /\ UNCHANGED <<container, zxid, watches, list_watches, requests_queue,
                   root_path, info, push_lock, finalize_owed, next_id,
                   push_result, events>>

\* The join of the processing thread with itself does not return: it either
\* blocks for ever (this step is never taken) or throws out of finalize and
\* of processingThread, before the try block that drains.
MutatorSelfJoinThrows ==
    /\ mutator = "selfjoin"
    /\ mutator' = "exit"
    /\ finalize_pc' = "aborted"
    /\ UNCHANGED <<container, zxid, watches, list_watches, requests_queue,
                   expired, root_path, info, push_lock, finalizer,
                   finalize_owed, next_id, push_result, events>>

\* finalize() called by a client thread (the catch of pushRequest, or the
\* destructor) while the session is not expired.
FinalizeBegin ==
    /\ FinalizeLock
    /\ ~expired
    /\ expired' = TRUE
    /\ finalizer' = "client"
    /\ finalize_pc' = "join"
    /\ finalize_owed' = FALSE
    /\ UNCHANGED <<container, zxid, watches, list_watches, requests_queue,
                   root_path, mutator, info, push_lock, next_id, push_result,
                   events>>

\* finalize() called by the catch of pushRequest when expired is already set
FinalizeAlreadyExpired ==
    /\ FinalizeLock
    /\ expired
    /\ finalize_owed
    /\ finalize_owed' = FALSE
    /\ UNCHANGED <<container, zxid, watches, list_watches, requests_queue,
                   expired, root_path, mutator, info, push_lock, finalizer,
                   finalize_pc, next_id, push_result, events>>

\* An expiration that calls no callback.
ExpireNoWatches(registry, keys) == <<>>

\* The session-expired calls for every callback of the data watches, in map
\* order.
RECURSIVE ExpireWatches(_, _)
ExpireWatches(registry, keys) ==
    IF keys = <<>> THEN <<>>
    ELSE CallAll(registry[Head(keys)], SessionExpiredWatchResponse)
         \o ExpireWatches(registry, Tail(keys))

\* while (requests_queue.tryPop(info)): the callback, then the watch
RECURSIVE DrainQueue(_)
DrainQueue(queue) ==
    IF queue = <<>> THEN <<>>
    ELSE LET i == Head(queue)
         IN  <<Event("completion", i.id, "finalize", 0, i.request,
                     Failed(i.request.type, "ZSESSIONEXPIRED"))>>
             \o (IF i.watch
                 THEN <<Event("watch", i.id, "finalize", 0, NoInfo.request,
                              SessionExpiredWatchResponse)>>
                 ELSE <<>>)
             \o DrainQueue(Tail(queue))

\* finalize without processing_thread.join().
FinalizeNoJoin == TRUE

\* processing_thread.join() returns: processingThread has returned
FinalizeJoin == mutator = "exit"

\* processing_thread.join() returns in the client's finalize, then the
\* watches are expired and the queue is drained: the callbacks are running.
FinalizeDrain ==
    /\ finalizer = "client"
    /\ finalize_pc = "join"
    /\ FinalizeJoin
    /\ events' = events
                 \o WatchEvents(ExpireWatches(watches, SortedKeys(DOMAIN watches)),
                                "finalize", 0)
                 \o DrainQueue(requests_queue)
    /\ watches' = EmptyMap
    /\ requests_queue' = <<>>
    /\ finalize_pc' = "draining"
    /\ UNCHANGED <<container, zxid, list_watches, expired, root_path, mutator,
                   info, push_lock, finalizer, finalize_owed, next_id,
                   push_result>>

\* The callbacks of the expiration and of the drain return, and finalize
\* returns.
FinalizeReturn ==
    /\ finalize_pc = "draining"
    /\ finalize_pc' = "done"
    /\ UNCHANGED <<container, zxid, watches, list_watches, requests_queue,
                   expired, root_path, mutator, info, push_lock, finalizer,
                   finalize_owed, next_id, push_result, events>>

\* ------------------------------------------------------------- pushRequest
\* if (expired) throw Exception("Session expired", ZSESSIONEXPIRED)
PushCheckExpired == expired

\* pushRequest takes push_request_mutex and finds the session expired; the
\* finalize() of its catch returns at once.
PushExpired ==
    /\ next_id <= MaxRequests
    /\ push_lock = NoInfo
    /\ PushCheckExpired
    /\ push_result' = (next_id :> PushResult("ZSESSIONEXPIRED", NoInfo)) @@ push_result
    /\ next_id' = next_id + 1
    /\ UNCHANGED <<container, zxid, watches, list_watches, requests_queue,
                   expired, root_path, mutator, info, push_lock, finalizer,
                   finalize_pc, finalize_owed, events>>

\* pushRequest takes push_request_mutex, passes the expired test and enters
\* tryPush.
PushLock ==
    /\ next_id <= MaxRequests
    /\ push_lock = NoInfo
    /\ ~PushCheckExpired
    /\ \E e \in SessionCalls :
          /\ Constructs(e[1])
          /\ push_lock' = [id |-> next_id, request |-> e[1], watch |-> e[2]]
    /\ next_id' = next_id + 1
    /\ UNCHANGED <<container, zxid, watches, list_watches, requests_queue,
                   expired, root_path, mutator, info, finalizer, finalize_pc,
                   finalize_owed, push_result, events>>

\* tryPush succeeds; the mutex is released
PushEnqueue ==
    /\ push_lock # NoInfo
    /\ Len(requests_queue) < MaxQueue
    /\ requests_queue' = Append(requests_queue, push_lock)
    /\ push_result' = (push_lock.id :> PushResult("pushed", push_lock)) @@ push_result
    /\ push_lock' = NoInfo
    /\ UNCHANGED <<container, zxid, watches, list_watches, expired, root_path,
                   mutator, info, finalizer, finalize_pc, finalize_owed,
                   next_id, events>>

\* tryPush times out on the full queue: ZOPERATIONTIMEOUT is thrown, the
\* mutex is released and the catch is about to call finalize
PushTimeout ==
    /\ push_lock # NoInfo
    /\ Len(requests_queue) >= MaxQueue
    /\ push_result' = (push_lock.id :> PushResult("ZOPERATIONTIMEOUT", push_lock)) @@ push_result
    /\ push_lock' = NoInfo
    /\ finalize_owed' = TRUE
    /\ UNCHANGED <<container, zxid, watches, list_watches, requests_queue,
                   expired, root_path, mutator, info, finalizer, finalize_pc,
                   next_id, events>>

\* multi(requests, callback): TestKeeperMultiRequest request(requests)
\* throws ZBADARGUMENTS before pushRequest is called, whether or not the
\* session is expired; nothing catches it in TestKeeper.
MultiBadArguments ==
    /\ next_id <= MaxRequests
    /\ \E e \in SessionCalls :
          /\ ~Constructs(e[1])
          /\ push_result' = (next_id :> PushResult("ZBADARGUMENTS",
                                [id |-> next_id, request |-> e[1], watch |-> e[2]]))
                            @@ push_result
    /\ next_id' = next_id + 1
    /\ UNCHANGED <<container, zxid, watches, list_watches, requests_queue,
                   expired, root_path, mutator, info, push_lock, finalizer,
                   finalize_pc, finalize_owed, events>>

\* ----------------------------------------------------------- specification
Next ==
    \/ MultiBadArguments
    \/ PushExpired
    \/ PushLock
    \/ PushEnqueue
    \/ PushTimeout
    \/ MutatorLoop
    \/ MutatorPop
    \/ MutatorPopTimeout
    \/ MutatorBreak
    \/ MutatorProcess
    \/ MutatorCallbackReturn
    \/ MutatorCatch
    \/ MutatorSelfJoinThrows
    \/ FinalizeBegin
    \/ FinalizeAlreadyExpired
    \/ FinalizeDrain
    \/ FinalizeReturn

Spec == Init /\ [][Next]_vars

\* The root_path_ arguments of the constructor in the rooted specification:
\* none, "/r/" and "//".  The constructor drops one trailing slash; under the
\* root "/" a client path "/a" becomes "//a", whose parent path is "/", the
\* one node of a new container, so requests can succeed under this root.
RootPaths == {<<>>, <<"/", "r", "/">>, <<"/", "/">>}

\* The state after construction with any of these arguments.
InitRoot ==
    /\ container = (Root :> DefaultNode)
    /\ zxid = 0
    /\ watches = EmptyMap
    /\ list_watches = EmptyMap
    /\ requests_queue = <<>>
    /\ expired = FALSE
    /\ \E root_path_ \in RootPaths : root_path = NormalizeRootPath(root_path_)
    /\ mutator = "loop"
    /\ info = NoInfo
    /\ push_lock = NoInfo
    /\ finalizer = "none"
    /\ finalize_pc = "idle"
    /\ finalize_owed = FALSE
    /\ next_id = 1
    /\ push_result = [i \in {} |-> PushResult("pushed", NoInfo)]
    /\ events = <<>>

\* The session under every one of these roots.
SpecRoot == InitRoot /\ [][Next]_vars

\* The session with its threads scheduled: processingThread keeps running,
\* a pushRequest inside tryPush ends, a pushRequest that threw calls
\* finalize, and a finalize whose join has returned runs to its end.  What
\* the clients choose to call (a new request, the destructor) is not forced,
\* and neither is the return of a thread's join of itself.
Fairness ==
    /\ WF_vars(MutatorLoop)
    /\ WF_vars(MutatorPop)
    /\ WF_vars(MutatorPopTimeout)
    /\ WF_vars(MutatorBreak)
    /\ WF_vars(MutatorProcess)
    /\ WF_vars(MutatorCallbackReturn)
    /\ WF_vars(MutatorCatch)
    /\ WF_vars(PushEnqueue)
    /\ WF_vars(PushTimeout)
    /\ WF_vars(finalize_owed /\ FinalizeBegin)
    /\ WF_vars(FinalizeAlreadyExpired)
    /\ WF_vars(FinalizeDrain)
    /\ WF_vars(FinalizeReturn)

SpecLive == Init /\ [][Next]_vars /\ Fairness

\* The store specification: one client submits a request and waits for its
\* callback before it submits the next, so each step is a pushRequest
\* followed by the loop iteration that processes the request.  events holds
\* the calls of the latest request only.
StoreStep ==
    /\ zxid < MaxSteps
    /\ mutator = "loop"
    /\ ~expired
    /\ \E r \in StoreRequests :
          LET i == [id |-> next_id, request |-> r, watch |-> FALSE]
          IN  /\ ProcessRequest(i, <<>>, "loop")
              /\ push_result' = (next_id :> PushResult("pushed", i)) @@ push_result
    /\ next_id' = next_id + 1
    /\ UNCHANGED <<requests_queue, expired, root_path, push_lock, finalizer,
                   finalize_pc, finalize_owed>>

NextStore == StoreStep

SpecStore == Init /\ [][NextStore]_vars

\* ------------------------------------------------------------ observations
LastEvent == events[Len(events)]

\* The ids of the pushRequest calls that put their envelope in the queue.
Pushed == {id \in DOMAIN push_result : push_result[id].outcome = "pushed"}

\* How often the callback of the given kind of request id has been called.
Calls(kind, id) ==
    Cardinality({k \in 1..Len(events) : events[k].kind = kind /\ events[k].id = id})

\* The direct children of path n: the other entries whose parent path is n.
Children(n) == {p \in DOMAIN container : p # n /\ parentPath(p) = n}

\* The step processed a request (every call of process follows a ++zxid).
ProcessedStep == zxid' # zxid

\* The request the step processed and what became of it.
StepRequest == events'[Len(events')].request
StepThrew == events'[Len(events')].kind = "threw"
StepResponse == events'[Len(events')].response

\* ------------------------------------------------------------------ claims

\* C1: a Multi that does not return ZOK (it returns an error, or one of its
\* sub-requests throws) leaves the whole container, every path, data, stat
\* field and seq_num, as it was before the call; zxid has advanced by one.
C1_FailedMultiRestoresContainer ==
    [][(/\ ProcessedStep
        /\ StepRequest.type = "Multi"
        /\ (StepThrew \/ StepResponse.error # "ZOK"))
       => (container' = container /\ zxid' = zxid + 1)]_vars

\* C1 witness: a Multi failed at its second sub-request after its first one,
\* a Create, had returned ZOK, and the created path is not in the container.
C1_Witness ==
    /\ events # <<>>
    /\ LastEvent.kind = "completion"
    /\ LastEvent.request.type = "Multi"
    /\ LastEvent.response.error # "ZOK"
    /\ Len(LastEvent.response.responses) = 2
    /\ LastEvent.response.responses[1].type = "Create"
    /\ LastEvent.response.responses[1].error = "ZOK"
    /\ LastEvent.response.responses[1].path_created \notin DOMAIN container

\* C4: for every node n of the container, n.stat.numChildren is the number
\* of entries whose parent path is n's path.
C4_NumChildrenCountsChildren ==
    \A n \in DOMAIN container :
        container[n].stat.numChildren = Cardinality(Children(n))

\* C5: "/" is in the container in every reachable state.
C5_RootAlwaysPresent == Root \in DOMAIN container

\* C6: for every non-root path p in the container, parentPath(p) is in the
\* container too.
C6_ParentPresent ==
    \A p \in DOMAIN container : p # Root => parentPath(p) \in DOMAIN container

\* C6 witness: a Remove of a node that has a child was answered ZNOTEMPTY,
\* and the child and its parent are both in the container.
C6_Witness ==
    /\ events # <<>>
    /\ LastEvent.kind = "completion"
    /\ LastEvent.request.type = "Remove"
    /\ LastEvent.request.path = PathA
    /\ LastEvent.response.error = "ZNOTEMPTY"
    /\ PathAB \in DOMAIN container
    /\ PathA \in DOMAIN container

\* C7: after a successful Create or Set of a node, the node's
\* stat.dataLength is the length of its stored data.
C7_DataLengthIsLength ==
    (/\ events # <<>>
     /\ LastEvent.kind = "completion"
     /\ LastEvent.request.type \in {"Create", "Set"}
     /\ LastEvent.response.error = "ZOK")
    => LET path == IF LastEvent.request.type = "Create"
                   THEN LastEvent.response.path_created
                   ELSE LastEvent.request.path
       IN  container[path].stat.dataLength = Len(container[path].data)

\* C2: the completion callback of every request that was pushed into the
\* queue is called at most once, and has been called exactly once when
\* finalize has completed.
C2_PushedCompletedExactlyOnce ==
    /\ \A id \in Pushed : Calls("completion", id) <= 1
    /\ finalize_pc = "done" => \A id \in Pushed : Calls("completion", id) = 1

\* C3: the watch callback of every pushed request that carries one is called
\* at most once, and has been called exactly once when finalize has
\* completed.
C3_WatchCalledExactlyOnce ==
    /\ \A id \in Pushed : push_result[id].watch => Calls("watch", id) <= 1
    /\ finalize_pc = "done"
       => \A id \in Pushed : push_result[id].watch => Calls("watch", id) = 1

\* C8: the zxid of each call of process is greater than that of every
\* earlier call, and the sub-requests of a Multi are all processed with the
\* zxid of the Multi: a Set sub-request stamps mzxid with it, and finds the
\* czxid of a node created earlier in the same Multi equal to it.
C8_ZxidStrictlyIncreases ==
    /\ \A i, j \in 1..Len(events) :
          (i < j /\ events[i].kind = "process" /\ events[j].kind = "process")
          => events[i].zxid < events[j].zxid
    /\ \A k \in 1..Len(events) :
          (/\ events[k].kind = "completion"
           /\ events[k].by = "mutator"
           /\ events[k].request.type = "Multi"
           /\ events[k].response.error = "ZOK")
          => LET requests == events[k].request.requests
                 responses == events[k].response.responses
             IN  \A n \in 1..Len(responses) :
                    responses[n].type = "Set"
                    => /\ responses[n].stat.mzxid = events[k].zxid
                       /\ (\E m \in 1..(n - 1) :
                              /\ requests[m].type = "Create"
                              /\ responses[m].path_created = requests[n].path)
                          => responses[n].stat.czxid = events[k].zxid

\* C8 witness: process has been called three times and a Multi of a Create
\* and a Set of the created node returned ZOK after an earlier request.
C8_Witness ==
    /\ Cardinality({k \in 1..Len(events) : events[k].kind = "process"}) = 3
    /\ \E k \in 1..Len(events) :
          /\ events[k].kind = "completion"
          /\ events[k].request.type = "Multi"
          /\ events[k].response.error = "ZOK"
          /\ Len(events[k].response.responses) = 2
          /\ events[k].zxid > 1

\* The events the step appended.
StepEvents == SubSeq(events', Len(events) + 1, Len(events'))

\* The step called the watch callback of request id from the mutator loop.
StepCalledWatch(id) ==
    \E k \in 1..Len(StepEvents) :
        /\ StepEvents[k].kind = "watch"
        /\ StepEvents[k].by = "mutator"
        /\ StepEvents[k].id = id

\* C9: when a top-level Create, Remove or Set on path p returns ZOK, every
\* callback registered under p in watches and every callback registered
\* under parentPath(p) in list_watches is called, and both entries are gone.
C9_SuccessfulMutationFiresWatches ==
    [][(/\ ProcessedStep
        /\ info.request.type \in {"Create", "Remove", "Set"}
        /\ ~StepThrew
        /\ StepResponse.error = "ZOK")
       => LET p == addRootPath(info.request, root_path).path
          IN  /\ p \in DOMAIN watches
                 => \A k \in 1..Len(watches[p]) : StepCalledWatch(watches[p][k])
              /\ parentPath(p) \in DOMAIN list_watches
                 => \A k \in 1..Len(list_watches[parentPath(p)]) :
                       StepCalledWatch(list_watches[parentPath(p)][k])
              /\ p \notin DOMAIN watches'
              /\ parentPath(p) \notin DOMAIN list_watches']_vars

\* C9 witness: one successful mutation of "/a" called a callback registered
\* under "/a" in watches and a callback registered under "/" in list_watches.
C9_Witness ==
    \E i, j \in 1..Len(events) :
        /\ events[i].kind = "watch" /\ events[j].kind = "watch"
        /\ events[i].by = "mutator" /\ events[j].by = "mutator"
        /\ events[i].zxid = events[j].zxid
        /\ events[i].response.path = PathA
        /\ events[j].response.path = Root
        /\ PathA \notin DOMAIN watches
        /\ Root \notin DOMAIN list_watches

\* C10: once expired is set the queue gains no envelope: no pushRequest is
\* past its expired test, and a pushRequest that takes the mutex fails with
\* ZSESSIONEXPIRED and leaves the queue as it is.  (A multi() call whose
\* constructor throws ZBADARGUMENTS never calls pushRequest.)
C10_NoPushAfterExpired ==
    [][expired
       => /\ Len(requests_queue') <= Len(requests_queue)
          /\ push_lock = NoInfo /\ push_lock' = NoInfo
          /\ (next_id' # next_id /\ push_result'[next_id].outcome # "ZBADARGUMENTS")
             => /\ push_result'[next_id].outcome = "ZSESSIONEXPIRED"
                /\ requests_queue' = requests_queue]_vars

\* C10 witness: a pushRequest made after expired was set has failed with
\* ZSESSIONEXPIRED while an envelope pushed before waits in the queue.
C10_Witness ==
    /\ expired
    /\ requests_queue # <<>>
    /\ \E id \in DOMAIN push_result : push_result[id].outcome = "ZSESSIONEXPIRED"

\* C12: the response list of a failed Multi holds the responses of the
\* sub-requests attempted, in order: all ZOK but the last, whose error is the
\* top-level error; nothing stands for the sub-requests after it, and the
\* container is as before.  A Multi whose sub-requests all return ZOK has
\* top-level ZOK and one response per sub-request.
C12_MultiResponseList ==
    [][(/\ ProcessedStep
        /\ StepRequest.type = "Multi"
        /\ ~StepThrew)
       => LET requests == StepRequest.requests
              responses == StepResponse.responses
              n == Len(responses)
          IN  /\ n <= Len(requests)
              /\ \A k \in 1..n : responses[k].type = requests[k].type
              /\ \A k \in 1..(n - 1) : responses[k].error = "ZOK"
              /\ IF StepResponse.error = "ZOK"
                 THEN /\ n = Len(requests)
                      /\ \A k \in 1..n : responses[k].error = "ZOK"
                 ELSE /\ n >= 1
                      /\ responses[n].error = StepResponse.error
                      /\ container' = container]_vars

\* C12 witness: a Multi of two sub-requests failed at its first one and
\* carries one response, with the error of the Multi.
C12_Witness ==
    /\ events # <<>>
    /\ LastEvent.kind = "completion"
    /\ LastEvent.request.type = "Multi"
    /\ Len(LastEvent.request.requests) = 2
    /\ Len(LastEvent.response.responses) = 1
    /\ LastEvent.response.error # "ZOK"
    /\ LastEvent.response.responses[1].error = LastEvent.response.error

\* The Set sub-requests among the first n sub-requests that name path.
SetsOf(requests, n, path) ==
    {k \in 1..n : requests[k].type = "Set" /\ requests[k].path = path}

\* C13: a successful Set leaves the node's stat.version at its version
\* before the Set plus one, and the returned stat carries that version; in
\* a successful Multi each Set of a node that the Multi neither creates nor
\* removes adds one in its turn.
C13_SetIncrementsVersion ==
    [][(/\ ProcessedStep
        /\ ~StepThrew
        /\ StepResponse.error = "ZOK")
       => /\ StepRequest.type = "Set"
             => LET path == StepRequest.path
                IN  /\ container'[path].stat.version
                          = container[path].stat.version + 1
                    /\ StepResponse.stat.version = container'[path].stat.version
          /\ StepRequest.type = "Multi"
             => LET requests == StepRequest.requests
                    touched == {requests[k].path : k \in
                                   {j \in 1..Len(requests) :
                                       requests[j].type \in {"Create", "Remove"}}}
                IN  \A n \in 1..Len(requests) :
                       (requests[n].type = "Set" /\ requests[n].path \notin touched)
                       => StepResponse.responses[n].stat.version
                             = container[requests[n].path].stat.version
                               + Cardinality(SetsOf(requests, n, requests[n].path))]_vars

\* C13 witness: the second successful Set of a node returned version 2.
C13_Witness ==
    /\ events # <<>>
    /\ LastEvent.kind = "completion"
    /\ LastEvent.request.type = "Set"
    /\ LastEvent.response.error = "ZOK"
    /\ LastEvent.response.stat.version = 2
    /\ container[LastEvent.request.path].stat.version = 2

\* C14: every ephemeral node has numChildren = 0 and is the parent of no
\* entry, and a Create whose parent is an ephemeral node returns
\* ZNOCHILDRENFOREPHEMERALS and leaves the container as it is.
C14_EphemeralHasNoChildren ==
    [][/\ \A n \in DOMAIN container' :
             container'[n].is_ephemeral
             => /\ container'[n].stat.numChildren = 0
                /\ \A p \in DOMAIN container' : p # n => parentPath(p) # n
       /\ (/\ ProcessedStep
           /\ StepRequest.type = "Create"
           /\ parentPath(StepRequest.path) \in DOMAIN container
           /\ container[parentPath(StepRequest.path)].is_ephemeral)
          => /\ ~StepThrew
             /\ StepResponse.error = "ZNOCHILDRENFOREPHEMERALS"
             /\ container' = container]_vars

\* C14 witness: a Create under the ephemeral node "/a" was refused.
C14_Witness ==
    /\ events # <<>>
    /\ LastEvent.kind = "completion"
    /\ LastEvent.request.type = "Create"
    /\ LastEvent.request.path = PathAB
    /\ LastEvent.response.error = "ZNOCHILDRENFOREPHEMERALS"
    /\ container[PathA].is_ephemeral
    /\ PathAB \notin DOMAIN container

\* The ten decimal digits of n, most significant first, zeros included.
TenDigits(n) == [i \in 1..10 |-> Digits[((n \div (10 ^ (10 - i))) % 10) + 1]]

\* The sub-requests the step applied and their responses: those of a Multi,
\* or the request itself.
StepSubRequests ==
    IF StepRequest.type = "Multi" THEN StepRequest.requests ELSE <<StepRequest>>
StepSubResponses ==
    IF StepRequest.type = "Multi" THEN StepResponse.responses ELSE <<StepResponse>>

\* The sequential Creates under parent q among the first n of them.
SeqCreatesUnder(q, n) ==
    {k \in 1..n : /\ StepSubRequests[k].type = "Create"
                  /\ StepSubRequests[k].is_sequential
                  /\ parentPath(StepSubRequests[k].path) = q}

\* C15: a committed sequential Create returns its path followed by the ten
\* digit zero-padded decimal of the number of sequential Creates committed
\* under the parent before it, which is the parent's seq_num; seq_num of a
\* node starts at 0 and advances by the sequential Creates committed under
\* it and by nothing else (not by a non-sequential Create, nor by a Create
\* that returns an error or belongs to a Multi that fails).
C15_SequentialSuffix ==
    [][ProcessedStep
       => LET committed == ~StepThrew /\ StepResponse.error = "ZOK"
              before(q) == IF q \in DOMAIN container
                           THEN container[q].seq_num ELSE 0
          IN  /\ committed
                 => \A k \in 1..Len(StepSubRequests) :
                       (StepSubRequests[k].type = "Create"
                        /\ StepSubRequests[k].is_sequential)
                       => LET q == parentPath(StepSubRequests[k].path)
                          IN  StepSubResponses[k].path_created
                                 = StepSubRequests[k].path
                                   \o TenDigits(before(q)
                                        + Cardinality(SeqCreatesUnder(q, k - 1)))
              /\ \A q \in DOMAIN container' :
                    container'[q].seq_num
                       = before(q)
                         + (IF committed
                            THEN Cardinality(SeqCreatesUnder(q, Len(StepSubRequests)))
                            ELSE 0)]_vars

\* C15 witness: the third sequential Create of "/a" under "/" returned
\* "/a0000000002" and "/" has seq_num 3.
C15_Witness ==
    /\ events # <<>>
    /\ LastEvent.kind = "completion"
    /\ LastEvent.request.type = "Create"
    /\ LastEvent.request.is_sequential
    /\ LastEvent.response.error = "ZOK"
    /\ LastEvent.response.path_created
          = <<"/", "a", "0", "0", "0", "0", "0", "0", "0", "0", "0", "2">>
    /\ container[Root].seq_num = 3

\* C11: the mutator processes the pushed requests in the order of their
\* push (the order of their ids, given under push_request_mutex): when R1
\* was pushed before R2, every call the mutator makes for R1 (process, and
\* the completion callback) comes before process is called for R2 and so
\* before R2's completion callback, and R1 is processed with a smaller zxid.
C11_ProcessedInPushOrder ==
    \A a, b \in 1..Len(events) :
        (/\ events[a].by = "mutator"
         /\ events[b].by = "mutator"
         /\ events[a].kind \in {"process", "threw", "completion"}
         /\ events[b].kind \in {"process", "threw", "completion"}
         /\ events[a].id < events[b].id)
        => /\ a < b
           /\ events[a].zxid < events[b].zxid

\* C11 witness: the Create of "/a" pushed first returned ZOK, the Set of
\* "/a" pushed second returned ZOK with version 1 (it saw the node), and a
\* third envelope waits in the queue.
C11_Witness ==
    /\ Len(events) = 4
    /\ events[1].kind = "process" /\ events[1].id = 1
    /\ events[1].request.type = "Create"
    /\ events[2].kind = "completion" /\ events[2].response.error = "ZOK"
    /\ events[3].kind = "process" /\ events[3].id = 2
    /\ events[3].request.type = "Set"
    /\ events[4].kind = "completion" /\ events[4].response.error = "ZOK"
    /\ events[4].response.stat.version = 1
    /\ requests_queue # <<>>
    /\ requests_queue[1].id = 3

\* The ids of the callbacks a registry holds under path p.
Registered(registry, p) ==
    IF p \in DOMAIN registry
    THEN {registry[p][k] : k \in 1..Len(registry[p])}
    ELSE {}

\* C16: a Multi that returns ZOK calls watch callbacks only after process
\* has applied all its sub-requests and before its completion callback; it
\* calls each callback registered in watches under the path of a Create,
\* Remove or Set sub-request, or in list_watches under the parent of that
\* path, once, with that path, and in the order of the first such
\* sub-request (within one sub-request the data watches first); callbacks
\* matched by Check sub-requests only are not called.
C16_MultiFiresInSubRequestOrder ==
    [][(/\ ProcessedStep
        /\ StepRequest.type = "Multi"
        /\ ~StepThrew
        /\ StepResponse.error = "ZOK")
       => LET subs == addRootPath(info.request, root_path).requests
              n == Len(StepEvents)
              FiresData(k, id) ==
                  /\ subs[k].type \in {"Create", "Remove", "Set"}
                  /\ id \in Registered(watches, subs[k].path)
              FiresList(k, id) ==
                  /\ subs[k].type \in {"Create", "Remove", "Set"}
                  /\ id \in Registered(list_watches, parentPath(subs[k].path))
              Fires(k, id) == FiresData(k, id) \/ FiresList(k, id)
              Fired(id) == \E k \in 1..Len(subs) : Fires(k, id)
              First(id) == CHOOSE k \in 1..Len(subs) :
                              Fires(k, id) /\ \A j \in 1..(k - 1) : ~Fires(j, id)
              ids == UNION ({Registered(watches, p) : p \in DOMAIN watches}
                            \cup {Registered(list_watches, p) : p \in DOMAIN list_watches})
          IN  /\ StepEvents[1].kind = "process"
              /\ Len(StepEvents[1].response.responses) = Len(subs)
              /\ StepEvents[n].kind = "completion"
              /\ \A a \in 2..(n - 1) :
                    /\ StepEvents[a].kind = "watch"
                    /\ StepEvents[a].by = "mutator"
                    /\ Fired(StepEvents[a].id)
                    /\ StepEvents[a].response.path
                          = (IF FiresData(First(StepEvents[a].id), StepEvents[a].id)
                             THEN subs[First(StepEvents[a].id)].path
                             ELSE parentPath(subs[First(StepEvents[a].id)].path))
              /\ \A a, b \in 2..(n - 1) :
                    a < b
                    => /\ StepEvents[a].id # StepEvents[b].id
                       /\ First(StepEvents[a].id) <= First(StepEvents[b].id)
                       /\ (First(StepEvents[a].id) = First(StepEvents[b].id)
                           /\ FiresData(First(StepEvents[b].id), StepEvents[b].id))
                          => FiresData(First(StepEvents[a].id), StepEvents[a].id)
              /\ \A id \in ids :
                    Fired(id) => \E a \in 2..(n - 1) : StepEvents[a].id = id]_vars

\* C16 witness: a Multi of Check "/", Set "/" and Create "/a" returned ZOK;
\* it called the List callback registered under "/" (fired by the Set) and
\* then the Get callback registered under "/a" (fired by the Create), and
\* then its completion callback.
C16_Witness ==
    /\ Len(events) >= 4
    /\ LET n == Len(events)
       IN  /\ events[n].kind = "completion"
           /\ events[n].request.type = "Multi"
           /\ Len(events[n].request.requests) = 3
           /\ events[n].request.requests[1].type = "Check"
           /\ events[n].response.error = "ZOK"
           /\ events[n - 1].kind = "watch"
           /\ events[n - 1].response.path = PathA
           /\ events[n - 2].kind = "watch"
           /\ events[n - 2].response.path = Root
           /\ events[n - 3].kind = "process"

\* The ids of all callbacks a registry holds.
AllRegistered(registry) ==
    UNION {Registered(registry, p) : p \in DOMAIN registry}

\* C17: a watch callback the mutator has called for a successful mutation
\* is in neither registry, and it has been called once in all: no later
\* mutation and no finalize calls it again.
C17_FiredWatchIsGone ==
    \A k \in 1..Len(events) :
        (events[k].kind = "watch" /\ events[k].by = "mutator")
        => /\ events[k].id \notin AllRegistered(watches)
           /\ events[k].id \notin AllRegistered(list_watches)
           /\ Calls("watch", events[k].id) = 1

\* C17 witness: the Get callback registered under "/a" was called when "/a"
\* was created; a later Set of "/a" returned ZOK, finalize has expired the
\* watches and returned, and the callback has been called once.
C17_Witness ==
    /\ finalize_pc = "done"
    /\ \E k \in 1..Len(events) :
          /\ events[k].kind = "watch"
          /\ events[k].by = "mutator"
          /\ events[k].response.path = PathA
          /\ Calls("watch", events[k].id) = 1
          /\ \E m \in (k + 1)..Len(events) :
                /\ events[m].kind = "completion"
                /\ events[m].by = "mutator"
                /\ events[m].request.type = "Set"
                /\ events[m].request.path = PathA
                /\ events[m].response.error = "ZOK"

\* C18: user callbacks never run at the same time on two threads: while
\* processingThread is inside the watch and completion callbacks of an
\* iteration, finalize is not inside the callbacks of its expiration and
\* drain.  (The callbacks of one thread run one after the other; a finalize
\* on the processing thread never reaches its callbacks.)
C18_CallbacksNeverOverlap ==
    ~(mutator = "callback" /\ finalize_pc = "draining")

\* C18 witness: finalize is inside the callbacks of its drain, called for an
\* envelope left in the queue, after processingThread called the completion
\* callback of an earlier request and returned.
C18_Witness ==
    /\ finalize_pc = "draining"
    /\ events # <<>>
    /\ LastEvent.by = "finalize"
    /\ LastEvent.kind \in {"completion", "watch"}
    /\ LastEvent.id > 1
    /\ \E k \in 1..Len(events) :
          events[k].by = "mutator" /\ events[k].kind = "completion"

\* C19: the finalize that performs the expiration calls every callback held
\* in watches once, each with type SESSION, state EXPIRED_SESSION and error
\* ZSESSIONEXPIRED, and leaves watches empty; it calls no callback held in
\* list_watches, which stays as it was.  (Its other watch calls are those of
\* the envelopes it drains from the queue, which are in no registry.)
C19_FinalizeExpiresDataWatchesOnly ==
    [][(finalize_pc = "join" /\ finalize_pc' = "draining")
       => LET WatchCalls(id) ==
                  {k \in 1..Len(StepEvents) :
                      StepEvents[k].kind = "watch" /\ StepEvents[k].id = id}
              queued == {requests_queue[k].id : k \in 1..Len(requests_queue)}
          IN  /\ \A id \in AllRegistered(watches) :
                    /\ Cardinality(WatchCalls(id)) = 1
                    /\ \A k \in WatchCalls(id) :
                          /\ StepEvents[k].by = "finalize"
                          /\ StepEvents[k].response.type = "SESSION"
                          /\ StepEvents[k].response.state = "EXPIRED_SESSION"
                          /\ StepEvents[k].response.error = "ZSESSIONEXPIRED"
              /\ \A k \in 1..Len(StepEvents) :
                    StepEvents[k].kind = "watch"
                    => StepEvents[k].id \in AllRegistered(watches) \cup queued
              /\ \A id \in AllRegistered(list_watches) : WatchCalls(id) = {}
              /\ watches' = EmptyMap
              /\ list_watches' = list_watches]_vars

\* C19 witness: finalize has called, with the session-expired response, the
\* callback a processed Get had left in watches; watches is empty and a List
\* callback is still in list_watches, never called.
C19_Witness ==
    /\ finalize_pc = "draining"
    /\ watches = EmptyMap
    /\ \E id \in AllRegistered(list_watches) : Calls("watch", id) = 0
    /\ \E k \in 1..Len(events) :
          /\ events[k].kind = "watch"
          /\ events[k].by = "finalize"
          /\ events[k].response = SessionExpiredWatchResponse
          /\ \E m \in 1..(k - 1) :
                /\ events[m].kind = "completion"
                /\ events[m].by = "mutator"
                /\ events[m].id = events[k].id
                /\ events[m].request.type = "Get"

\* The envelopes pushRequest or processingThread holds, or the queue holds.
Envelopes(lock, queue, popped) ==
    ({lock, popped} \ {NoInfo}) \cup {queue[k] : k \in 1..Len(queue)}

\* C20: a multi() call whose list holds a request that is not a Create,
\* Remove, Set or Check ends with ZBADARGUMENTS and changes nothing: the
\* queue, the container, zxid and expired are as before (no finalize is
\* owed either), so no envelope anywhere carries such a Multi.
C20_BadMultiChangesNothing ==
    [][/\ \A e \in Envelopes(push_lock', requests_queue', info') :
             e.request.type = "Multi"
             => \A k \in 1..Len(e.request.requests) :
                   e.request.requests[k].type \in {"Create", "Remove", "Set", "Check"}
       /\ (/\ next_id \in DOMAIN push_result' \ DOMAIN push_result
           /\ push_result'[next_id].outcome = "ZBADARGUMENTS")
          => /\ requests_queue' = requests_queue
             /\ push_lock' = push_lock
             /\ container' = container
             /\ zxid' = zxid
             /\ expired' = expired
             /\ finalize_owed' = finalize_owed
             /\ finalize_pc' = finalize_pc
             /\ events' = events]_vars

\* C20 witness: a multi() call ended with ZBADARGUMENTS, the session is not
\* expired, and a request made after it was pushed and processed.
C20_Witness ==
    /\ ~expired
    /\ \E a, b \in DOMAIN push_result :
          /\ a < b
          /\ push_result[a].outcome = "ZBADARGUMENTS"
          /\ push_result[b].outcome = "pushed"
          /\ Calls("completion", b) = 1

\* The request of call id as the client made it had the given type and
\* path, and it carried a watch that has not been called (in the state
\* before the step).
PendingWatcher(id, types, path) ==
    /\ id \in DOMAIN push_result
    /\ push_result[id].watch
    /\ Calls("watch", id) = 0
    /\ \E k \in 1..Len(events) :
          /\ events[k].kind = "completion"
          /\ events[k].by = "mutator"
          /\ events[k].id = id
          /\ events[k].request.type \in types
          /\ events[k].request.path = path

\* The step processed a top-level Create, Remove or Set that returned ZOK.
SuccessfulMutationStep ==
    /\ ProcessedStep
    /\ info.request.type \in {"Create", "Remove", "Set"}
    /\ ~StepThrew
    /\ StepResponse.error = "ZOK"

\* C21: under every root_path, the watch of an Exists, Get or List request
\* on client path p is kept under root_path followed by p, the key a later
\* Create, Remove or Set on client path p (or on a child of p, for List)
\* looks up; so a successful Create, Remove or Set on client path p calls
\* the watches of the earlier Exists and Get requests on p, and those of the
\* earlier List requests on its parent.
C21_WatchKeyedByRootedPath ==
    [][/\ \A k \in 1..Len(events') :
             (/\ events'[k].kind = "completion"
              /\ events'[k].by = "mutator")
             => LET id == events'[k].id
                    key == root_path \o events'[k].request.path
                IN  /\ \A q \in DOMAIN watches' :
                          id \in Registered(watches', q) => q = key
                    /\ \A q \in DOMAIN list_watches' :
                          id \in Registered(list_watches', q) => q = key
       /\ SuccessfulMutationStep
          => \A id \in DOMAIN push_result :
                (\/ PendingWatcher(id, {"Exists", "Get"}, info.request.path)
                 \/ PendingWatcher(id, {"List"}, parentPath(info.request.path)))
                => StepCalledWatch(id)]_vars

\* The type of the request that carried the watch of call id, as far as the
\* completion callbacks called so far tell.
WatcherTypes(id) ==
    {events[k].request.type :
        k \in {j \in 1..Len(events) : /\ events[j].kind = "completion"
                                      /\ events[j].by = "mutator"
                                      /\ events[j].id = id}}

\* C22: under every root_path, the path a watch callback receives when a
\* Create, Remove or Set returns ZOK is a path as the clients see it,
\* without root_path: the path given in that request for a watch of an
\* Exists or Get, and its parent for a watch of a List; and it is the path
\* given in the request that carried the watch.
C22_WatchPathIsClientPath ==
    [][SuccessfulMutationStep
       => \A a \in 1..Len(StepEvents) :
             (StepEvents[a].kind = "watch" /\ StepEvents[a].by = "mutator")
             => LET id == StepEvents[a].id
                    path == StepEvents[a].response.path
                IN  /\ PendingWatcher(id, {"Exists", "Get", "List"}, path)
                    /\ WatcherTypes(id) \subseteq {"Exists", "Get"}
                       => path = info.request.path
                    /\ WatcherTypes(id) \subseteq {"List"}
                       => path = parentPath(info.request.path)]_vars

\* How often the watch callback of call id has been called after the step.
WatchCallsAfter(id) ==
    Cardinality({k \in 1..Len(events') :
                    events'[k].kind = "watch" /\ events'[k].id = id})

C24_ThrowLeadsToFinalized ==
    (mutator = "catch")
    ~> (/\ expired
        /\ finalize_pc = "done"
        /\ requests_queue = <<>>
        /\ watches = EmptyMap
        /\ \A id \in Pushed : Calls("completion", id) + Calls("threw", id) >= 1)

\* C25: a request whose process threw or whose response error is not ZOK
\* calls no watch callback and takes no callback out of watches or
\* list_watches; the processing thread calls watch callbacks (other than
\* with the session-expired response of finalize) only in an iteration
\* whose response error is ZOK.
C25_NoWatchCallWithoutZOK ==
    [][/\ (ProcessedStep /\ (StepThrew \/ StepResponse.error # "ZOK"))
          => /\ \A k \in 1..Len(StepEvents) : StepEvents[k].kind # "watch"
             /\ \A p \in DOMAIN watches :
                   Registered(watches, p) \subseteq Registered(watches', p)
             /\ \A p \in DOMAIN list_watches :
                   Registered(list_watches, p)
                      \subseteq Registered(list_watches', p)
       /\ (\E k \in 1..Len(StepEvents) :
              StepEvents[k].kind = "watch" /\ StepEvents[k].by = "mutator")
          => /\ ProcessedStep
             /\ ~StepThrew
             /\ StepResponse.error = "ZOK"]_vars

\* C25 witness: the watch of a Get of "/a" was registered, a Set of "/a"
\* processed later returned ZNONODE, and the watch is still registered and
\* has not been called.
C25_Witness ==
    \E g, s \in 1..Len(events) :
        /\ g < s
        /\ events[g].kind = "completion"
        /\ events[g].request.type = "Get"
        /\ events[g].request.path = PathA
        /\ push_result[events[g].id].watch
        /\ events[s].kind = "completion"
        /\ events[s].request.type = "Set"
        /\ events[s].request.path = PathA
        /\ events[s].response.error = "ZNONODE"
        /\ events[g].id \in Registered(watches, PathA)
        /\ Calls("watch", events[g].id) = 0

\* C26: a step changes the container only when it processed a Create,
\* Remove, Set or Multi request whose response error is ZOK: an Exists, Get,
\* List or Check, and a Create, Remove or Set that did not return ZOK, leave
\* the set of paths and every node's data and stat as they were.
C26_ContainerChangesOnlyOnZOK ==
    [][container' # container
       => /\ ProcessedStep
          /\ StepRequest.type \in {"Create", "Remove", "Set", "Multi"}
          /\ ~StepThrew
          /\ StepResponse.error = "ZOK"]_vars

\* The pushRequest calls that threw ZOPERATIONTIMEOUT.
TimedOut(results) ==
    {id \in DOMAIN results : results[id].outcome = "ZOPERATIONTIMEOUT"}

\* After the step, the envelope of call id has been dealt with: the
\* processing thread has processed it, or finalize has called its completion
\* callback with ZSESSIONEXPIRED.
DealtWithAfter(id) ==
    \E k \in 1..Len(events') :
        /\ events'[k].id = id
        /\ \/ events'[k].kind = "threw"
           \/ /\ events'[k].kind = "completion"
              /\ events'[k].by = "mutator"
           \/ /\ events'[k].kind = "completion"
              /\ events'[k].by = "finalize"
              /\ events'[k].response.error = "ZSESSIONEXPIRED"

\* C27: a pushRequest whose tryPush fails on the full queue throws
\* ZOPERATIONTIMEOUT and calls finalize; once that call has been made,
\* expired is set; once it has returned (no finalize of a client thread is
\* still at its join or in its drain), the queue is empty and every envelope
\* that was pushed has been dealt with, by the processing thread or by a
\* completion callback with ZSESSIONEXPIRED; and every pushRequest after
\* that call throws ZSESSIONEXPIRED.
C27_PushTimeoutExpiresSession ==
    [][/\ (push_lock # NoInfo /\ push_lock' = NoInfo
           /\ requests_queue' = requests_queue)
          => /\ push_result'[push_lock.id].outcome = "ZOPERATIONTIMEOUT"
             /\ finalize_owed'
       /\ (finalize_owed /\ ~finalize_owed') => expired'
       /\ (/\ TimedOut(push_result') # {}
           /\ ~finalize_owed'
           /\ ~(finalizer' = "client" /\ finalize_pc' \in {"join", "draining"}))
          => /\ expired'
             /\ requests_queue' = <<>>
             /\ \A id \in DOMAIN push_result' :
                   push_result'[id].outcome = "pushed" => DealtWithAfter(id)
       /\ (TimedOut(push_result) # {} /\ ~finalize_owed)
          => /\ push_lock' = NoInfo
             /\ \A id \in DOMAIN push_result' \ DOMAIN push_result :
                   push_result'[id].outcome \in {"ZSESSIONEXPIRED", "ZBADARGUMENTS"}]_vars

====
